---- MODULE Spec2Model ----
(***************************************************************************)
(* Model of src/source/game.cpp: the component arenas addressed by        *)
(* handles, the Game constructor, and the three passes of game_update      *)
(* (Move, Resolve-Avoidance, Export) around the double-buffered mutable    *)
(* store, together with the game_initialize / game_destroy lifecycle.      *)
(*                                                                         *)
(* Numbers.  The floats of the program are modelled as exact fixed-point   *)
(* integers: a coordinate, a velocity, a colour channel and a sprite scale *)
(* are counted in hundredths (1.3 is 130), a squared distance therefore in *)
(* ten-thousandths, and deltaTime is a whole number of time units.  The    *)
(* velocities of regular objects are multiples of 10, so that the factor   *)
(* 1.1f of ResolveCollision is exact.  Floating-point rounding is not      *)
(* modelled.                                                               *)
(***************************************************************************)
EXTENDS Integers, Sequences, FiniteSets

VARIABLES
    s_game,       \* the static pointer: "null" or "ptr" (line 352)
    alive,        \* the Game object s_game points to is allocated and not deleted
    sComponents,  \* Game::sComponents: [sprite, avoid, avoidThis]
    vec,          \* which storage each std::vector owns: the four vectors of
                  \* mComponents / mComponentsBuffer and the three locals of game_update
    heap,         \* storage id -> the elements it holds
    pc,           \* position of the host / of game_update
    deltaTime,    \* argument of the running game_update
    data,         \* the caller's sprite_data_t buffer
    ret,          \* game_update's return value (-1: none yet)
    calls,        \* number of host calls made
    obs,          \* observer: snapshots taken inside the running frame
    passLog       \* observer: the arrays the last pass read and wrote

vars == <<s_game, alive, sComponents, vec, heap, pc, deltaTime, data, ret, calls, obs, passLog>>

----------------------------------------------------------------------------
(* Sizes of the model *)

\* number of regular objects (1000000 in the program, line 10)
kObjectCount == 1
\* number of avoid targets (20 in the program, line 11)
kAvoidCount == 2
\* host calls (initialize / update / destroy) in one run
MaxCalls == 3

(* Program constants, in hundredths *)
xMin == -8000
xMax == 8000
yMin == -5000
yMax == 5000
kAvoidDistance == 130
kAvoidSpriteIndex == 5
kAvoidScale == 200
kRegularScale == 100
kWhite == 100
\* 0.05f, taking a value in hundredths to a value in ten-thousandths
globalScale == 5

bounds == [xMin |-> xMin, xMax |-> xMax, yMin |-> yMin, yMax |-> yMax]

\* deltaTime values the host passes
DeltaTimes == {1, 80}

----------------------------------------------------------------------------
(* Values the random draws of the constructors can produce *)

Pos(x, y, velx, vely) == [x |-> x, y |-> y, velx |-> velx, vely |-> vely]
Col(r, g, b) == [colorR |-> r, colorG |-> g, colorB |-> b]

\* Position(bounds, 1.0f, angle, speed in 0.5 .. 0.7): anywhere in the bounds
RegularPositions ==
    { Pos(7970, 4980, 40, 50),      \* runs into the xMax / yMax corner
      Pos(-7970, -4980, -40, -50),  \* runs into the xMin / yMin corner
      Pos(-160, 0, 60, 0),          \* approaches the targets from outside
      Pos(50, 0, 60, 0),            \* starts inside the trigger radius
      Pos(820, 4900, 0, -60) }      \* reaches a target in one long step

\* rand() % 5
RegularSpriteIndices == {0, 4}

\* Position(bounds, 0.2f, angle, speed in 0.1 .. 0.2): near the centre
AvoidPositions == { Pos(20, 0, 10, 0), Pos(100, 0, 0, -20) }

\* three channels in 0.5 .. 1.0
AvoidColors == { Col(50, 100, 75), Col(100, 50, 50) }

RegularInits == [p : RegularPositions, spriteIndex : RegularSpriteIndices]
AvoidInits == [p : AvoidPositions, c : AvoidColors]
                 \ { [p |-> Pos(100, 0, 0, -20), c |-> Col(50, 100, 75)] }

----------------------------------------------------------------------------
(* Helpers *)

Min(a, b) == IF a < b THEN a ELSE b
Max(a, b) == IF a > b THEN a ELSE b

\* float Clamp(x, lower, upper)
Clamp(x, lower, upper) == Max(lower, Min(upper, x))

\* v * 1.1f
Times1_1(v) == (v * 11) \div 10

\* element h of a vector, h a 0-based handle
At(s, h) == s[h + 1]
InRange(s, h) == h >= 0 /\ h < Len(s)

----------------------------------------------------------------------------
(* Position::UpdatePosition *)

UpdatePositionOneSided(p, dt, b) ==
    LET ix == p.x + p.velx * dt
        iy == p.y + p.vely * dt
        xVelScale == IF ix > b.xMax THEN -1 ELSE 1
        yVelScale == IF iy > b.yMax THEN -1 ELSE 1
    IN  Pos(Min(b.xMax, ix), Min(b.yMax, iy), p.velx * xVelScale, p.vely * yVelScale)

UpdatePositionFlipX(p, dt, b) ==
    LET ix == p.x + p.velx * dt
        iy == p.y + p.vely * dt
        xVelScale == IF ix < b.xMin THEN -1 ELSE (IF ix > b.xMax THEN -1 ELSE 1)
    IN  Pos(Clamp(ix, b.xMin, b.xMax), Clamp(iy, b.yMin, b.yMax),
            p.velx * xVelScale, p.vely * xVelScale)

UpdatePosition(p, dt, b) ==
    LET ix == p.x + p.velx * dt
        iy == p.y + p.vely * dt
        xVelScale == IF ix < b.xMin THEN -1 ELSE (IF ix > b.xMax THEN -1 ELSE 1)
        yVelScale == IF iy < b.yMin THEN -1 ELSE (IF iy > b.yMax THEN -1 ELSE 1)
    IN  Pos(Clamp(ix, b.xMin, b.xMax), Clamp(iy, b.yMin, b.yMax),
            p.velx * xVelScale, p.vely * yVelScale)

\* Position::UpdatePositions: the loop from element i on, over the storage
\* ids (in and out may be the same storage)
RECURSIVE UpdatePositions(_, _, _, _, _, _)
UpdatePositions(h, i, dt, b, in, out) ==
    IF i > Len(h[in]) THEN h
    ELSE UpdatePositions([h EXCEPT ![out][i] = UpdatePosition(h[in][i], dt, b)],
                         i + 1, dt, b, in, out)

----------------------------------------------------------------------------
(* struct Avoid *)

DistanceSq(a, b) ==
    LET dx == a.x - b.x
        dy == a.y - b.y
    IN  dx * dx + dy * dy

ResolveCollision(dt, pos) ==
    LET velx == 0 - pos.velx
        vely == 0 - pos.vely
    IN  Pos(pos.x + Times1_1(velx * dt), pos.y + Times1_1(vely * dt), velx, vely)

\* the for loop of the member ResolveCollisions, from target k on
RECURSIVE ScanLast(_, _, _, _, _, _, _)
ScanLast(k, dt, myPos, myColor, positions, colors, avoidThese) ==
    IF k < 1 THEN [pos |-> myPos, color |-> myColor]
    ELSE LET o == avoidThese[k]
         IN  IF DistanceSq(myPos, At(positions, o.posId)) < o.distanceSq
             THEN [pos |-> ResolveCollision(dt, myPos), color |-> At(colors, o.colorId)]
             ELSE ScanLast(k - 1, dt, myPos, myColor, positions, colors, avoidThese)

RECURSIVE Scan(_, _, _, _, _, _, _)
Scan(k, dt, myPos, myColor, positions, colors, avoidThese) ==
    IF k > Len(avoidThese) THEN [pos |-> myPos, color |-> myColor]
    ELSE LET o == avoidThese[k]
         IN  IF DistanceSq(myPos, At(positions, o.posId)) < o.distanceSq
             THEN [pos |-> ResolveCollision(dt, myPos), color |-> At(colors, o.colorId)]
             ELSE Scan(k + 1, dt, myPos, myColor, positions, colors, avoidThese)

\* a scan that keeps the last target in range instead of the first
ResolveOneLastMatch(c, dt, positions, colors, avoidThese) ==
    ScanLast(Len(avoidThese), dt, At(positions, c.posId), At(colors, c.colorId),
             positions, colors, avoidThese)

\* Avoid::ResolveCollisions (member): the new state of one Avoid entity
ResolveOne(c, dt, positions, colors, avoidThese) ==
    Scan(1, dt, At(positions, c.posId), At(colors, c.colorId),
         positions, colors, avoidThese)

\* Avoid::ResolveCollisions (static): the loop from Avoid i on, over the
\* storage ids of its four vector arguments
RECURSIVE ResolveCollisions(_, _, _, _, _, _, _, _, _)
ResolveCollisions(h, i, dt, out_pos, out_color, in_pos, in_color, avoid, avoidThese) ==
    IF i > Len(avoid) THEN h
    ELSE LET c == avoid[i]
             result == ResolveOne(c, dt, h[in_pos], h[in_color], avoidThese)
         IN  ResolveCollisions(
                 [h EXCEPT ![out_pos][c.posId + 1] = result.pos,
                           ![out_color][c.colorId + 1] = result.color],
                 i + 1, dt, out_pos, out_color, in_pos, in_color, avoid, avoidThese)

----------------------------------------------------------------------------
(* Arenas and the Game constructor *)

\* Allocators::New: append, the handle is the old size
New(storage, value) == [id |-> Len(storage), storage |-> Append(storage, value)]

SpriteCtor(spriteIndex, scale, color, pos) ==
    [scale |-> scale, spriteIndex |-> spriteIndex, colorId |-> color, posId |-> pos]
AvoidThisCtor(distance, color, position) ==
    [distanceSq |-> distance * distance, colorId |-> color, posId |-> position]
AvoidCtor(pos, color) == [posId |-> pos, colorId |-> color]

\* g holds the five arenas being filled
EmptyArenas == [pos |-> <<>>, color |-> <<>>, sprite |-> <<>>, avoid |-> <<>>, avoidThis |-> <<>>]

NewAvoidThis(g, t) ==
    LET pos == New(g.pos, t.p)
        color == New(g.color, t.c)
        spr == New(g.sprite, SpriteCtor(kAvoidSpriteIndex, kAvoidScale, color.id, pos.id))
        av == New(g.avoidThis, AvoidThisCtor(kAvoidDistance, color.id, pos.id))
    IN  [g EXCEPT !.pos = pos.storage, !.color = color.storage,
                  !.sprite = spr.storage, !.avoidThis = av.storage]

NewRegularObject(g, r) ==
    LET pos == New(g.pos, r.p)
        color == New(g.color, Col(kWhite, kWhite, kWhite))
        spr == New(g.sprite, SpriteCtor(r.spriteIndex, kRegularScale, color.id, pos.id))
        av == New(g.avoid, AvoidCtor(pos.id, color.id))
    IN  [g EXCEPT !.pos = pos.storage, !.color = color.storage,
                  !.sprite = spr.storage, !.avoid = av.storage]

RECURSIVE CreateRegular(_, _, _)
CreateRegular(g, regs, i) ==
    IF i > Len(regs) THEN g ELSE CreateRegular(NewRegularObject(g, regs[i]), regs, i + 1)

RECURSIVE CreateAvoidThis(_, _, _)
CreateAvoidThis(g, tgts, i) ==
    IF i > Len(tgts) THEN g ELSE CreateAvoidThis(NewAvoidThis(g, tgts[i]), tgts, i + 1)

\* Game::Game: the regular objects first, then the avoid targets
GameArenas(regs, tgts) == CreateAvoidThis(CreateRegular(EmptyArenas, regs, 1), tgts, 1)

----------------------------------------------------------------------------
(* Storage *)

StorageIds == {"posA", "posB", "colorA", "colorB", "tmpMoved", "tmpPos", "tmpColor"}

NoHeap == [id \in StorageIds |-> <<>>]

\* no Game: its vectors do not exist
NoVec == [state_pos |-> "none", state_color |-> "none",
          buffer_pos |-> "none", buffer_color |-> "none",
          movedPositions |-> "none", resolvedPositions |-> "none",
          resolvedColors |-> "none"]

NoStatics == [sprite |-> <<>>, avoid |-> <<>>, avoidThis |-> <<>>]

NoObs == [valid |-> FALSE, pre_pos |-> <<>>, pre_color |-> <<>>, older_color |-> <<>>,
          moved |-> <<>>, out_pos |-> "none", out_color |-> "none",
          res_pos |-> <<>>, res_color |-> <<>>]

NoPass == [pass |-> "none", reads |-> {}, writes |-> {}, lens |-> {}]

\* std::swap of two vectors: they exchange their storage
Swap(v, a, b) == [v EXCEPT ![a] = v[b], ![b] = v[a]]

\* the storage whose contents differ between two heaps
Changed(h1, h2) == {id \in StorageIds : h1[id] # h2[id]}

Init ==
    /\ s_game = "null"
    /\ alive = FALSE
    /\ sComponents = NoStatics
    /\ vec = NoVec
    /\ heap = NoHeap
    /\ pc = "idle"
    /\ deltaTime = 0
    /\ data = <<>>
    /\ ret = -1
    /\ calls = 0
    /\ obs = NoObs
    /\ passLog = NoPass

\* s_game = new Game({-80, 80, -50, 50})
NewGame ==
    /\ pc = "idle"
    /\ calls < MaxCalls
    /\ \E regs \in [1..kObjectCount -> RegularInits], tgts \in [1..kAvoidCount -> AvoidInits] :
         LET g == GameArenas(regs, tgts)
         IN  /\ sComponents' = [sprite |-> g.sprite, avoid |-> g.avoid, avoidThis |-> g.avoidThis]
             \* mComponentsBuffer = mComponents copies both vectors
             /\ heap' = [NoHeap EXCEPT !["posA"] = g.pos, !["colorA"] = g.color,
                                       !["posB"] = g.pos, !["colorB"] = g.color]
    /\ vec' = [NoVec EXCEPT !.state_pos = "posA", !.state_color = "colorA",
                            !.buffer_pos = "posB", !.buffer_color = "colorB"]
    /\ s_game' = "ptr"
    /\ alive' = TRUE
    /\ calls' = calls + 1
    /\ obs' = NoObs
    /\ passLog' = NoPass
    /\ UNCHANGED <<pc, deltaTime, data, ret>>

\* the first game_initialize of the process
game_initialize == s_game = "null" /\ NewGame

\* a later game_initialize: the Game s_game pointed to is no longer referenced
game_initialize_again == s_game = "ptr" /\ NewGame

----------------------------------------------------------------------------
(* ExportSpriteData *)

SpriteData(sprite, pos, color) ==
    [posX |-> pos.x * globalScale, posY |-> pos.y * globalScale,
     scale |-> sprite.scale * globalScale,
     colR |-> color.colorR, colG |-> color.colorG, colB |-> color.colorB,
     sprite |-> sprite.spriteIndex]

\* the loop from sprite j on; out holds the records written so far, its
\* length is objectCount
RECURSIVE ExportSpriteData(_, _, _, _, _)
ExportSpriteData(sprites, positions, colors, j, out) ==
    IF j > Len(sprites) THEN out
    ELSE ExportSpriteData(sprites, positions, colors, j + 1,
             Append(out, SpriteData(sprites[j], At(positions, sprites[j].posId),
                                    At(colors, sprites[j].colorId))))

----------------------------------------------------------------------------
(* game_update *)

\* a local std::vector is declared: empty, with storage of its own
Declare(v, name, tmp) == [v EXCEPT ![name] = tmp]

\* line 372
SwapMoved(v) == Swap(v, "movedPositions", "buffer_pos")

\* line 376: the arguments of UpdatePositions
MoveArgs(v) == [in |-> v.state_pos, out |-> v.movedPositions]

\* lines 379 and 381
SwapResolved(v) == Swap(Swap(v, "resolvedPositions", "state_pos"), "resolvedColors", "buffer_color")

\* a resolve pass that works in place on the moved positions
ResolveArgsInPlace(v) ==
    [out_pos |-> v.movedPositions, out_color |-> v.resolvedColors,
     in_pos |-> v.movedPositions, in_color |-> v.state_color]

\* a resolve pass that reads the colours of the buffer it writes
ResolveArgsOlderColor(v) ==
    [out_pos |-> v.resolvedPositions, out_color |-> v.resolvedColors,
     in_pos |-> v.movedPositions, in_color |-> v.resolvedColors]

\* line 384: the arguments of ResolveCollisions
ResolveArgs(v) ==
    [out_pos |-> v.resolvedPositions, out_color |-> v.resolvedColors,
     in_pos |-> v.movedPositions, in_color |-> v.state_color]

\* the swaps without line 386
SwapBackLosingMoved(v) ==
    Swap(Swap(Swap(v, "buffer_color", "state_color"),
              "state_pos", "resolvedPositions"),
         "state_color", "resolvedColors")

\* the swaps without lines 387 and 390
SwapBackStaleColor(v) ==
    Swap(Swap(v, "buffer_pos", "movedPositions"), "state_pos", "resolvedPositions")

\* lines 386 to 390
SwapBack(v) ==
    Swap(Swap(Swap(Swap(v, "buffer_pos", "movedPositions"),
                   "buffer_color", "state_color"),
              "state_pos", "resolvedPositions"),
         "state_color", "resolvedColors")

\* line 392: the arguments of ExportSpriteData
ExportArgs(v) == [positions |-> v.state_pos, colors |-> v.state_color]

\* every handle of the static components indexes inside the vector s
HandlesInRange(handles, s) == \A h \in handles : InRange(s, h)
PosHandles(seq) == {seq[i].posId : i \in DOMAIN seq}
ColorHandles(seq) == {seq[i].colorId : i \in DOMAIN seq}

\* an access outside a vector: the behaviour of the program is undefined
Undefined ==
    /\ pc' = "undefined"
    /\ UNCHANGED <<s_game, alive, sComponents, vec, heap, deltaTime, data, ret, obs, passLog>>

\* lines 367 to 376, entered with deltaTime dt
MovePass(dt) ==
    LET v == SwapMoved(Declare(vec, "movedPositions", "tmpMoved"))
        a == MoveArgs(v)
        h == UpdatePositions(heap, 1, dt, bounds, a.in, a.out)
    IN  IF Len(heap[a.out]) < Len(heap[a.in])
        THEN Undefined
        ELSE /\ vec' = v
             /\ heap' = h
             /\ deltaTime' = dt
             /\ obs' = [NoObs EXCEPT !.pre_pos = heap[vec.state_pos],
                                     !.pre_color = heap[vec.state_color],
                                     !.older_color = heap[vec.buffer_color],
                                     !.moved = h[a.out]]
             /\ passLog' = [pass |-> "Move", reads |-> {a.in},
                            writes |-> {a.out} \cup Changed(heap, h),
                            lens |-> {Len(heap[a.in]), Len(heap[a.out])}]
             /\ pc' = "resolve"
             /\ UNCHANGED <<s_game, alive, sComponents, data, ret>>

\* assert(s_game) fails
game_update_assert ==
    /\ pc = "idle"
    /\ calls < MaxCalls
    /\ s_game = "null"
    /\ pc' = "aborted"
    /\ calls' = calls + 1
    /\ UNCHANGED <<s_game, alive, sComponents, vec, heap, deltaTime, data, ret, obs, passLog>>

\* game_update on a live Game, up to the end of the Move pass
game_update_Move ==
    /\ pc = "idle"
    /\ calls < MaxCalls
    /\ s_game = "ptr"
    /\ alive
    /\ calls' = calls + 1
    /\ \E dt \in DeltaTimes : MovePass(dt)

\* lines 378 to 384
game_update_Resolve ==
    /\ pc = "resolve"
    /\ LET v == SwapResolved(Declare(Declare(vec, "resolvedPositions", "tmpPos"),
                                     "resolvedColors", "tmpColor"))
           a == ResolveArgs(v)
           c == sComponents
           h == ResolveCollisions(heap, 1, deltaTime, a.out_pos, a.out_color,
                                  a.in_pos, a.in_color, c.avoid, c.avoidThis)
       IN  IF /\ HandlesInRange(PosHandles(c.avoid), heap[a.out_pos])
              /\ HandlesInRange(PosHandles(c.avoid) \cup PosHandles(c.avoidThis), heap[a.in_pos])
              /\ HandlesInRange(ColorHandles(c.avoid), heap[a.out_color])
              /\ HandlesInRange(ColorHandles(c.avoid) \cup ColorHandles(c.avoidThis), heap[a.in_color])
           THEN /\ vec' = v
                /\ heap' = h
                /\ obs' = [obs EXCEPT !.out_pos = a.out_pos, !.out_color = a.out_color,
                                       !.res_pos = h[a.out_pos], !.res_color = h[a.out_color]]
                /\ passLog' = [pass |-> "Resolve", reads |-> {a.in_pos, a.in_color},
                               writes |-> {a.out_pos, a.out_color} \cup Changed(heap, h),
                               lens |-> {Len(heap[a.out_pos]), Len(heap[a.out_color]),
                                         Len(heap[a.in_pos]), Len(heap[a.in_color])}]
                /\ pc' = "export"
                /\ UNCHANGED <<s_game, alive, sComponents, deltaTime, data, ret, calls>>
           ELSE Undefined /\ UNCHANGED calls

\* lines 386 to 393; the three local vectors are destroyed at the return
game_update_Export ==
    /\ pc = "export"
    /\ LET v == SwapBack(vec)
           a == ExportArgs(v)
           c == sComponents
           out == ExportSpriteData(c.sprite, heap[a.positions], heap[a.colors], 1, <<>>)
           locals == {v.movedPositions, v.resolvedPositions, v.resolvedColors}
           h == [id \in StorageIds |-> IF id \in locals THEN <<>> ELSE heap[id]]
       IN  IF /\ HandlesInRange(PosHandles(c.sprite), heap[a.positions])
              /\ HandlesInRange(ColorHandles(c.sprite), heap[a.colors])
           THEN /\ vec' = [v EXCEPT !.movedPositions = "none", !.resolvedPositions = "none",
                                    !.resolvedColors = "none"]
                /\ heap' = h
                /\ data' = out
                /\ ret' = Len(out)
                /\ obs' = [obs EXCEPT !.valid = TRUE]
                /\ passLog' = [pass |-> "Export", reads |-> {a.positions, a.colors},
                               writes |-> Changed(heap, h),
                               lens |-> {Len(heap[a.positions]), Len(heap[a.colors])}]
                /\ pc' = "idle"
                /\ UNCHANGED <<s_game, alive, sComponents, deltaTime, calls>>
           ELSE Undefined /\ UNCHANGED calls

----------------------------------------------------------------------------
(* game_destroy, and game_update after it *)

\* delete of a null pointer does nothing
game_destroy_null ==
    /\ pc = "idle"
    /\ calls < MaxCalls
    /\ s_game = "null"
    /\ calls' = calls + 1
    /\ UNCHANGED <<s_game, alive, sComponents, vec, heap, pc, deltaTime, data, ret, obs, passLog>>

\* delete s_game: the Game and its vectors are released; s_game keeps its value
game_destroy ==
    /\ pc = "idle"
    /\ calls < MaxCalls
    /\ s_game = "ptr"
    /\ alive
    /\ alive' = FALSE
    /\ calls' = calls + 1
    /\ UNCHANGED <<s_game, sComponents, vec, heap, pc, deltaTime, data, ret, obs, passLog>>

Crash ==
    /\ pc' = "crashed"
    /\ UNCHANGED <<s_game, alive, sComponents, vec, heap, deltaTime, data, ret, obs, passLog>>

\* delete of the dangling pointer: undefined; the process dies or goes on
game_destroy_twice ==
    /\ pc = "idle"
    /\ calls < MaxCalls
    /\ s_game = "ptr"
    /\ ~alive
    /\ calls' = calls + 1
    /\ \/ Crash
       \/ UNCHANGED <<s_game, alive, sComponents, vec, heap, pc, deltaTime, data, ret, obs, passLog>>

\* game_update with the dangling pointer: assert(s_game) passes, the passes
\* use released storage: undefined; the process dies, or the passes run on
\* what the released storage still holds
game_update_released ==
    /\ pc = "idle"
    /\ calls < MaxCalls
    /\ s_game = "ptr"
    /\ ~alive
    /\ calls' = calls + 1
    /\ \/ Crash
       \/ \E dt \in DeltaTimes : MovePass(dt)

----------------------------------------------------------------------------
(* Specifications *)

\* a host that calls game_initialize once and never game_destroy
Next ==
    \/ game_initialize
    \/ game_update_assert
    \/ game_update_Move
    \/ game_update_Resolve
    \/ game_update_Export

Spec == Init /\ [][Next]_vars

\* a host that calls the three entry points in any order
LifecycleNext ==
    \/ Next
    \/ game_initialize_again
    \/ game_destroy_null
    \/ game_destroy
    \/ game_destroy_twice
    \/ game_update_released

LifecycleSpec == Init /\ [][LifecycleNext]_vars

----------------------------------------------------------------------------
(* Vocabulary of the properties *)

TotalCount == kObjectCount + kAvoidCount

AfterMove == pc = "resolve"
AfterResolve == pc = "export"
AfterUpdate == pc = "idle" /\ obs.valid

\* the targets in range of the moved position of Avoid entity c in this frame
TargetsInRange(c) ==
    {k \in DOMAIN sComponents.avoidThis :
        DistanceSq(At(obs.moved, c.posId), At(obs.moved, sComponents.avoidThis[k].posId))
            < sComponents.avoidThis[k].distanceSq}

\* the first of them in creation order
FirstTarget(c) ==
    sComponents.avoidThis[CHOOSE k \in TargetsInRange(c) : \A l \in TargetsInRange(c) : k <= l]

AvoidEntities == {sComponents.avoid[i] : i \in DOMAIN sComponents.avoid}

\* Move applied to slot i of the generation that was current before the update
MoveOfPre(i) == UpdatePosition(obs.pre_pos[i], deltaTime, bounds)

InsideBounds(p) == xMin <= p.x /\ p.x <= xMax /\ yMin <= p.y /\ p.y <= yMax

----------------------------------------------------------------------------
(* Properties *)

\* C1: no pass reads and writes the same physical array: the storage Move
\* writes is not the storage it reads, the two arrays Resolve writes are
\* not among the two it reads, and Export changes no component array; in the
\* first frame and after the buffer swaps of earlier frames.
C1_NoPassReadsAndWritesSameArray ==
    /\ passLog.reads \cap passLog.writes = {}
    /\ passLog.pass = "Move" => Cardinality(passLog.reads) = 1 /\ Cardinality(passLog.writes) = 1
    /\ passLog.pass = "Resolve" => Cardinality(passLog.reads) = 2 /\ Cardinality(passLog.writes) = 2
    /\ passLog.pass = "Export" => passLog.writes = {}

\* a Resolve pass of a later frame, the colour buffers having changed roles
C1_Witness ==
    /\ passLog.pass = "Resolve"
    /\ passLog.reads = {"posB", "colorB"}
    /\ passLog.writes = {"posA", "colorA"}

\* C2: after an update every Position slot of the current generation holds
\* the value computed in this frame: Move of the slot's pre-frame value,
\* followed by the Resolve adjustment if an Avoid entity owns the slot.
C2_EveryPositionReplaced ==
    AfterUpdate =>
        \A i \in 1..TotalCount :
            heap[vec.state_pos][i] =
                IF \E c \in AvoidEntities : c.posId = i - 1
                THEN LET c == CHOOSE c \in AvoidEntities : c.posId = i - 1
                         m == MoveOfPre(i)
                     IN  IF TargetsInRange(c) = {} THEN m ELSE ResolveCollision(deltaTime, m)
                ELSE MoveOfPre(i)

\* C3: every position Move writes lies inside the bounds, whatever its input.
C3_BoundsContainment ==
    AfterMove => \A i \in DOMAIN heap[vec.movedPositions] :
                     InsideBounds(heap[vec.movedPositions][i])

\* Move has run on an input that the Resolve overshoot left outside the bounds
C3_Witness ==
    /\ AfterMove
    /\ \E i \in DOMAIN obs.pre_pos : ~InsideBounds(obs.pre_pos[i])

AxisReflected(integrated, lo, hi, out, velIn, velOut) ==
    /\ integrated < lo => out = lo /\ velOut = 0 - velIn
    /\ integrated > hi => out = hi /\ velOut = 0 - velIn
    /\ (lo <= integrated /\ integrated <= hi) => out = integrated /\ velOut = velIn

\* C4: per axis, independently: an integrated coordinate below the minimum
\* or above the maximum gives that boundary and the negated velocity; one
\* inside gives the integrated coordinate and the same velocity.
C4_ReflectionCorrectness ==
    AfterMove =>
        \A i \in DOMAIN obs.pre_pos :
            LET p == obs.pre_pos[i]
                m == heap[vec.movedPositions][i]
            IN  /\ AxisReflected(p.x + p.velx * deltaTime, xMin, xMax, m.x, p.velx, m.velx)
                /\ AxisReflected(p.y + p.vely * deltaTime, yMin, yMax, m.y, p.vely, m.vely)

\* one step flips both axes of one entity and leaves another axis alone
C4_Witness ==
    /\ AfterMove
    /\ \E i \in DOMAIN obs.pre_pos :
         LET p == obs.pre_pos[i]
         IN  /\ p.x + p.velx * deltaTime > xMax
             /\ p.y + p.vely * deltaTime > yMax
             /\ p.velx # 0 /\ p.vely # 0
    /\ \E i \in DOMAIN obs.pre_pos :
         LET p == obs.pre_pos[i]
         IN  p.x + p.velx * deltaTime \in xMin..xMax /\ p.velx # 0

\* C5: an Avoid entity with a target in range of its moved position gets the
\* colour of the first such target in creation order, the negated moved
\* velocity, and the moved position advanced by that velocity * dt * 1.1.
C5_FirstMatch ==
    AfterResolve =>
        \A c \in AvoidEntities :
            TargetsInRange(c) # {} =>
                LET m == At(obs.moved, c.posId)
                    t == FirstTarget(c)
                    vx == 0 - m.velx
                    vy == 0 - m.vely
                IN  /\ At(heap[obs.out_color], c.colorId) = At(obs.pre_color, t.colorId)
                    /\ At(heap[obs.out_pos], c.posId) =
                           Pos(m.x + (vx * deltaTime * 11) \div 10,
                               m.y + (vy * deltaTime * 11) \div 10, vx, vy)

\* an entity in range of two targets of different colours has been resolved
C5_Witness ==
    /\ AfterResolve
    /\ \E c \in AvoidEntities :
         \E k, l \in TargetsInRange(c) :
            /\ k < l
            /\ At(obs.pre_color, sComponents.avoidThis[k].colorId)
                   # At(obs.pre_color, sComponents.avoidThis[l].colorId)

\* C6: an Avoid entity with no target in range ends the update with its
\* Move output as position and velocity and with the colour it had in the
\* current generation before the update.
C6_PassThrough ==
    AfterUpdate =>
        \A c \in AvoidEntities :
            TargetsInRange(c) = {} =>
                /\ At(heap[vec.state_pos], c.posId) = At(obs.moved, c.posId)
                /\ At(heap[vec.state_pos], c.posId) = MoveOfPre(c.posId + 1)
                /\ At(heap[vec.state_color], c.colorId) = At(obs.pre_color, c.colorId)

\* a pass-through of an entity whose colour differs between the two buffers
C6_Witness ==
    /\ AfterUpdate
    /\ \E c \in AvoidEntities :
         /\ TargetsInRange(c) = {}
         /\ At(obs.pre_color, c.colorId) # At(obs.older_color, c.colorId)

\* C7: every update returns the number of Sprite components and writes one
\* record per Sprite, in creation order, from the Position and Color the
\* Sprite's handles select in the generation Resolve produced in that frame.
C7_ExportCompleteness ==
    AfterUpdate =>
        /\ ret = TotalCount
        /\ Len(sComponents.sprite) = TotalCount
        /\ Len(data) = TotalCount
        /\ \A j \in 1..TotalCount :
             LET spr == sComponents.sprite[j]
                 pos == At(obs.res_pos, spr.posId)
                 color == At(obs.res_color, spr.colorId)
             IN  data[j] = [posX |-> pos.x * globalScale, posY |-> pos.y * globalScale,
                            scale |-> spr.scale * globalScale,
                            colR |-> color.colorR, colG |-> color.colorG,
                            colB |-> color.colorB, sprite |-> spr.spriteIndex]

\* a later update has exported a colour that its own Resolve pass changed
C7_Witness ==
    /\ AfterUpdate
    /\ calls >= 3
    /\ \E j \in 1..TotalCount :
         data[j].colR # At(obs.pre_color, sComponents.sprite[j].colorId).colorR

\* C8: the handles of the static components are those given at creation and
\* index inside every array they are used on: the arrays of each pass have
\* TotalCount elements, no access is out of range, and between updates both
\* generations of the Position and Color arenas have TotalCount elements.
C8_HandleValidity ==
    s_game = "ptr" =>
        /\ \A j \in DOMAIN sComponents.sprite :
             sComponents.sprite[j].posId = j - 1 /\ sComponents.sprite[j].colorId = j - 1
        /\ \A i \in DOMAIN sComponents.avoid :
             sComponents.avoid[i].posId = i - 1 /\ sComponents.avoid[i].colorId = i - 1
        /\ \A k \in DOMAIN sComponents.avoidThis :
             /\ sComponents.avoidThis[k].posId = kObjectCount + k - 1
             /\ sComponents.avoidThis[k].colorId = kObjectCount + k - 1
        /\ Len(sComponents.sprite) = TotalCount
        /\ Len(sComponents.avoid) = kObjectCount
        /\ Len(sComponents.avoidThis) = kAvoidCount
        /\ passLog.lens \subseteq {TotalCount}
        /\ pc # "undefined"
        /\ pc = "idle" =>
             \A f \in {"state_pos", "state_color", "buffer_pos", "buffer_color"} :
                 vec[f] # "none" /\ Len(heap[vec[f]]) = TotalCount

\* two updates have run to their end
C8_Witness ==
    /\ AfterUpdate
    /\ calls >= 3
    /\ passLog.pass = "Export"
    /\ passLog.lens = {TotalCount}

\* C9: the position Resolve writes for a matched entity is outside the
\* trigger radius of the target it matched.
C9_OvershootExits ==
    AfterResolve =>
        \A c \in AvoidEntities :
            TargetsInRange(c) # {} =>
                DistanceSq(At(heap[obs.out_pos], c.posId), At(obs.moved, FirstTarget(c).posId))
                    >= FirstTarget(c).distanceSq

\* C10: the passes of game_update run only on a Game that is initialized and
\* not destroyed.
C10_LifecycleSafety ==
    pc \in {"resolve", "export"} => alive

====
